---- MODULE Spec2Model ----
(***************************************************************************)
(* Model of server.js: the session-gated account lifecycle                 *)
(* (register, login, session check, logout, contact form).                 *)
(*                                                                         *)
(* Every handler is an async function: between two awaits other requests   *)
(* run.  A request in flight is a record in reqs; each action is the part  *)
(* of a handler that runs from one external call's completion to the next  *)
(* external call (or to the response).  The session middleware loads       *)
(* req.session when the request arrives and writes it back when the        *)
(* response ends.                                                          *)
(***************************************************************************)
EXTENDS Integers, Sequences, FiniteSets, TLC

\* ---------------------------------------------------------------- bounds
MaxInFlight == 2      \* requests suspended at an await at the same time
MaxSid == 2           \* session ids the store issues
MaxTime == 3          \* server timestamps the Firestore clock hands out
MaxSidEnv == 1        \* the same, in the runs with one client
MaxTimeEnv == 4

\* a run's bounds and the inputs its clients send
Core == [usernames |-> {"", "alice"}, passwords |-> {"", "x"},
         inFlight |-> MaxInFlight, sids |-> MaxSid, time |-> MaxTime]
TwoPasswords == [usernames |-> {"", "alice"}, passwords |-> {"", "secret1", "x"},
                 inFlight |-> MaxInFlight, sids |-> MaxSidEnv, time |-> MaxTime]
OneUser == [usernames |-> {"", "alice"}, passwords |-> {"", "x"},
            inFlight |-> MaxInFlight, sids |-> MaxSidEnv, time |-> MaxTimeEnv]
TwoUsers == [usernames |-> {"", "alice", "bob"}, passwords |-> {"", "x"},
             inFlight |-> MaxInFlight, sids |-> MaxSidEnv, time |-> MaxTimeEnv]
ContactFields == {"", "hi"}

Usernames == Core.usernames \cup OneUser.usernames \cup TwoUsers.usernames
             \cup TwoPasswords.usernames
Sids == 1..(IF MaxSid > MaxSidEnv THEN MaxSid ELSE MaxSidEnv)
Uids == 1..Cardinality(Usernames \ {""})

NoCookie == 0         \* the request carries no connect.sid cookie
NoUid == 0            \* req.session.uid is undefined
Null == -1            \* lastLogin: null

\* `${username}@aicloude.com`
Email(username) == <<username, "@aicloude.com">>

\* !value of a request field (undefined and "" are both falsy)
Missing(value) == value = ""

VARIABLES
  accounts,    \* Identity Provider: email -> [uid, password], uid = NoUid: no account
  users,       \* db.collection('users'): uid -> profile document
  contacts,    \* db.collection('contacts'): the documents added
  sessions,    \* the session store (MemoryStore): sid -> session
  nextSid,     \* the next session id the store issues
  reqs,        \* the requests in flight (each suspended at an await)
  resp,        \* the response the latest step sent, NoResp when it sent none
  now,         \* the clock of the Firestore server: timestamps handed out
  destroyed    \* history: sid -> the handlers that destroyed that session

vars == <<accounts, users, contacts, sessions, nextSid, reqs, resp, now, destroyed>>

\* ------------------------------------------------------------ values
NoAccount == [uid |-> NoUid, password |-> ""]
NoDoc == [exists |-> FALSE, username |-> "", isAdmin |-> FALSE,
          createdAt |-> Null, lastLogin |-> Null]
NoSession == [present |-> FALSE, uid |-> NoUid, isAdmin |-> FALSE]
\* the session store.generate() makes: no uid, no isAdmin
EmptySession == [present |-> TRUE, uid |-> NoUid, isAdmin |-> FALSE]

\* a request: its handler's locals and the place it is suspended at
NoReq == [op |-> "none", pc |-> "none", sid |-> NoCookie, session |-> NoSession,
          username |-> "", password |-> "", uid |-> NoUid, oldPassword |-> "",
          isAdmin |-> FALSE, after |-> {}]

NoResp == [op |-> "none", status |-> 0, error |-> "", loggedIn |-> FALSE,
           username |-> "", isAdmin |-> FALSE, after |-> {}]

Registered == {e \in DOMAIN accounts : accounts[e].uid # NoUid}

\* the uid the Identity Provider gives the next account
NewUid == Cardinality(Registered) + 1

\* the record createUser({email, password, emailVerified: false}) makes
NewAccount(password) == [uid |-> NewUid, password |-> password]

Init ==
  /\ accounts = [e \in {Email(u) : u \in Usernames \ {""}} |-> NoAccount]
  /\ users = [i \in Uids |-> NoDoc]
  /\ contacts = <<>>
  /\ sessions = [s \in Sids |-> NoSession]
  /\ nextSid = 1
  /\ reqs = {}
  /\ resp = NoResp
  /\ now = 0
  /\ destroyed = [s \in Sids |-> {}]

\* ------------------------------------------------- session middleware
\* app.use(session({resave: false, saveUninitialized: true})), default store

\* store.get(cookie) finds a session: the request continues with it
Inflated(cookie) == cookie # NoCookie /\ sessions[cookie].present

\* req.sessionID; NoCookie stands for the id generate() makes, which the
\* store and the client first see when the response ends
LoadSid(cookie) == IF Inflated(cookie) THEN cookie ELSE NoCookie

\* req.session as the handler first sees it
LoadSession(cookie) == IF Inflated(cookie) THEN sessions[cookie] ELSE EmptySession

Generated == {r \in reqs : r.sid = NoCookie}

\* the store can still issue an id to every generated session
CanGenerate(b, cookie) ==
  Inflated(cookie) \/ nextSid + Cardinality(Generated) <= b.sids

\* the cookies clients hold: the ids issued so far, or none
Cookies == 0..(nextSid - 1)

\* the request as it reaches its handler
Arrive(op, pc, cookie) ==
  [NoReq EXCEPT !.op = op, !.pc = pc,
                !.sid = LoadSid(cookie), !.session = LoadSession(cookie),
                !.after = IF cookie = NoCookie THEN {} ELSE destroyed[cookie]]

\* a store with one slot per account instead: storing a logged-in session
\* drops every other session of the same account (what C8 tells apart)
SavedSessionsPerAccount(r, session) ==
  LET token == IF r.sid = NoCookie THEN nextSid ELSE r.sid IN
  [s \in DOMAIN sessions |->
     IF s = token THEN session
     ELSE IF session.uid # NoUid /\ sessions[s].uid = session.uid THEN NoSession
     ELSE sessions[s]]

\* res.end: a generated session is stored under a new id (saveUninitialized);
\* a loaded session is stored again only when the handler changed it
\* (resave: false), whatever the store holds for that id by now
SavedSessions(r, session) ==
  IF r.sid = NoCookie THEN [sessions EXCEPT ![nextSid] = session]
  ELSE IF session # r.session THEN [sessions EXCEPT ![r.sid] = session]
  ELSE sessions

SavedNextSid(r) == IF r.sid = NoCookie THEN nextSid + 1 ELSE nextSid

\* res.status(status).json({error}) / res.json({success: true})
Reply(r, status, error) ==
  [NoResp EXCEPT !.op = r.op, !.status = status, !.error = error, !.after = r.after]

\* the response ends with req.session still set
End(r, session, response) ==
  /\ sessions' = SavedSessions(r, session)
  /\ nextSid' = SavedNextSid(r)
  /\ resp' = response

\* the server has room for one more request in flight
HasRoom(b) == Cardinality(reqs) < b.inFlight

\* the handler waits for its next call's answer: the request is in flight
Await(r) ==
  /\ r \notin reqs
  /\ reqs' = reqs \cup {r}
  /\ resp' = NoResp
  /\ UNCHANGED <<sessions, nextSid>>

\* the awaited call answered and the handler goes on to its next await
\* (next leaves out the locals the handler does not read again)
Resume(r, next) ==
  /\ reqs' = (reqs \ {r}) \cup {next}
  /\ resp' = NoResp
  /\ UNCHANGED <<sessions, nextSid>>

\* ------------------------------------------------------------ /register
\* a validation that forgets the password (what C4 tells apart)
InvalidUsername(username, password) == Missing(username)

\* if (!username || !password)
Invalid(username, password) == Missing(username) \/ Missing(password)

\* what admin.auth().createUser may answer: "ok", or the code of the error
\* it throws; an identifier already in use is always reported as such
CreateUserAnswers(e) ==
  IF accounts[e].uid # NoUid THEN {"auth/email-already-exists"}
  ELSE {"ok", "auth/internal-error"}

\* a catch block that does not look at error.code (what C5 tells apart)
RegistrationFailed(code) == "Registration failed"

\* the message the catch block sends for error.code
RegistrationError(code) ==
  IF code = "auth/email-already-exists" THEN "Username already exists"
  ELSE "Registration failed"

\* from the request's arrival to the answer of admin.auth().createUser
\* (the handler touches nothing shared before that call is made)
Register(b, cookie, username, password) ==
  LET r == [Arrive("register", "set", cookie) EXCEPT !.username = username]
      e == Email(username)
  IN
  /\ CanGenerate(b, cookie)
  /\ IF Invalid(username, password)
     THEN /\ End(r, r.session, Reply(r, 400, "Username and password required"))
          /\ UNCHANGED <<accounts, reqs>>
     ELSE /\ HasRoom(b)
          /\ \E code \in CreateUserAnswers(e) :
               IF code = "ok"
               THEN /\ accounts' = [accounts EXCEPT ![e] = NewAccount(password)]
                    /\ Await([r EXCEPT !.uid = NewUid])
               ELSE /\ End(r, r.session, Reply(r, 400, RegistrationError(code)))
                    /\ UNCHANGED <<accounts, reqs>>
  /\ UNCHANGED <<users, contacts, now, destroyed>>

\* admin.firestore.FieldValue.serverTimestamp(): the time of the write at
\* the server, later than every earlier write's
ServerTimestamp == now + 1

\* the document Register writes
NewDoc(r) ==
  [exists |-> TRUE, username |-> r.username, isAdmin |-> FALSE,
   createdAt |-> ServerTimestamp, lastLogin |-> Null]

\* db.collection('users').doc(user.uid).set answers
RegisterSet(b, r) ==
  /\ r.op = "register" /\ r.pc = "set"
  /\ now < b.time
  /\ \E ok \in BOOLEAN :
       IF ok
       THEN /\ users' = [users EXCEPT ![r.uid] = NewDoc(r)]
            /\ now' = ServerTimestamp
            /\ End(r, r.session, Reply(r, 200, ""))
       ELSE \* the write throws: an error whose code is not an auth code
            /\ End(r, r.session, Reply(r, 400, RegistrationError("unavailable")))
            /\ UNCHANGED <<users, now>>
  /\ reqs' = reqs \ {r}
  /\ UNCHANGED <<accounts, contacts, destroyed>>

\* --------------------------------------------------------------- /login
\* a failure that leaves the uid it found in the session (what C6 tells
\* apart)
LoginFailedWithUid(r) ==
  End(r, [r.session EXCEPT !.uid = r.uid], Reply(r, 401, "Invalid credentials"))

\* catch (error): every failure of Login ends the same way
LoginFailed(r) == End(r, r.session, Reply(r, 401, "Invalid credentials"))

\* from the request's arrival to the answer of admin.auth().getUserByEmail:
\* user is the account's record
Login(b, cookie, username, password) ==
  LET r == [Arrive("login", "updateUser", cookie) EXCEPT !.password = password]
      user == accounts[Email(username)]
  IN
  /\ CanGenerate(b, cookie)
  /\ IF Invalid(username, password)
     THEN /\ End(r, r.session, Reply(r, 400, "Credentials required"))
          /\ UNCHANGED reqs
     ELSE /\ HasRoom(b)
          /\ \E ok \in BOOLEAN :
               IF ok /\ user.uid # NoUid
               THEN Await([r EXCEPT !.uid = user.uid, !.oldPassword = user.password])
               ELSE /\ LoginFailed(r)
                    /\ UNCHANGED reqs
  /\ UNCHANGED <<accounts, users, contacts, now, destroyed>>

\* a Login that leaves the credential alone (what C10 tells apart)
SameUser(uid, password) == accounts

\* the accounts after updateUser(uid, {password})
UpdatedUser(uid, password) ==
  [e \in DOMAIN accounts |->
     IF accounts[e].uid = uid THEN [accounts[e] EXCEPT !.password = password]
     ELSE accounts[e]]

\* admin.auth().updateUser(user.uid, {password}) answers
LoginUpdateUser(r) ==
  /\ r.op = "login" /\ r.pc = "updateUser"
  /\ \E ok \in BOOLEAN :
       IF ok
       THEN /\ accounts' = UpdatedUser(r.uid, r.password)
            /\ Resume(r, [r EXCEPT !.pc = "get", !.password = ""])
       ELSE /\ LoginFailed(r)
            /\ reqs' = reqs \ {r}
            /\ UNCHANGED accounts
  /\ UNCHANGED <<users, contacts, now, destroyed>>

\* db.collection('users').doc(user.uid).get answers: userDoc
LoginGet(r) ==
  LET userDoc == users[r.uid] IN
  /\ r.op = "login" /\ r.pc = "get"
  /\ \E ok \in BOOLEAN :
       IF ok /\ userDoc.exists
       THEN Resume(r, [r EXCEPT !.pc = "update", !.isAdmin = userDoc.isAdmin,
                                !.oldPassword = ""])
       ELSE /\ LoginFailed(r)   \* the call failed, or 'User document not found'
            /\ reqs' = reqs \ {r}
  /\ UNCHANGED <<accounts, users, contacts, now, destroyed>>

\* a set() in place of the update(): the other fields are lost (what C9
\* tells apart)
ReplacedDoc(doc) == [NoDoc EXCEPT !.exists = TRUE, !.lastLogin = ServerTimestamp]

\* the document after update({lastLogin: serverTimestamp()})
UpdatedDoc(doc) == [doc EXCEPT !.lastLogin = ServerTimestamp]

\* req.session after req.session.uid = ..., req.session.isAdmin = ...
LoggedInSession(r) == [r.session EXCEPT !.uid = r.uid, !.isAdmin = r.isAdmin]

\* db.collection('users').doc(user.uid).update answers (it fails on a
\* document that is gone); then the session is set and the response sent
LoginUpdate(b, r) ==
  /\ r.op = "login" /\ r.pc = "update"
  /\ now < b.time
  /\ \E ok \in BOOLEAN :
       IF ok /\ users[r.uid].exists
       THEN /\ users' = [users EXCEPT ![r.uid] = UpdatedDoc(users[r.uid])]
            /\ now' = ServerTimestamp
            /\ End(r, LoggedInSession(r), Reply(r, 200, ""))
            /\ reqs' = reqs \ {r}
       ELSE /\ LoginFailed(r)
            /\ reqs' = reqs \ {r}
            /\ UNCHANGED <<users, now>>
  /\ UNCHANGED <<accounts, contacts, destroyed>>

\* ------------------------------------------------------------ /api/user
\* req.session.destroy(): the store forgets the id at once
Destroy(sid) ==
  IF sid = NoCookie THEN sessions ELSE [sessions EXCEPT ![sid] = NoSession]

Destroyed(sid, by) ==
  IF sid = NoCookie THEN destroyed
  ELSE [destroyed EXCEPT ![sid] = destroyed[sid] \cup {by}]

\* res.json({loggedIn: false})
NotLoggedIn(r, status) == [Reply(r, status, "") EXCEPT !.loggedIn = FALSE]

\* an answer built from the session's copy of isAdmin (what C2 tells apart)
LoggedInFromSession(r, userDoc) ==
  [Reply(r, 200, "") EXCEPT !.loggedIn = TRUE, !.username = userDoc.username,
                            !.isAdmin = r.session.isAdmin]

\* res.json({loggedIn: true, user: {username, isAdmin}}) from userDoc
LoggedIn(r, userDoc) ==
  [Reply(r, 200, "") EXCEPT !.loggedIn = TRUE, !.username = userDoc.username,
                            !.isAdmin = userDoc.isAdmin]

WhoAmI(b, cookie) ==
  LET r == Arrive("whoami", "get", cookie) IN
  /\ CanGenerate(b, cookie)
  /\ IF r.session.uid = NoUid
     THEN /\ End(r, r.session, NotLoggedIn(r, 200))
          /\ UNCHANGED reqs
     ELSE HasRoom(b) /\ Await(r)
  /\ UNCHANGED <<accounts, users, contacts, now, destroyed>>

\* db.collection('users').doc(req.session.uid).get answers: userDoc
WhoAmIGet(r) ==
  LET userDoc == users[r.session.uid] IN
  /\ r.op = "whoami" /\ r.pc = "get"
  /\ \E ok \in BOOLEAN :
       IF ~ok
       THEN /\ End(r, r.session, NotLoggedIn(r, 500))
            /\ UNCHANGED destroyed
       ELSE IF ~userDoc.exists
       THEN /\ sessions' = Destroy(r.sid)
            /\ destroyed' = Destroyed(r.sid, "whoami")
            /\ resp' = NotLoggedIn(r, 200)
            /\ UNCHANGED nextSid
       ELSE /\ End(r, r.session, LoggedIn(r, userDoc))
            /\ UNCHANGED destroyed
  /\ reqs' = reqs \ {r}
  /\ UNCHANGED <<accounts, users, contacts, now>>

\* -------------------------------------------------------------- /logout
\* req.session.destroy(callback); the default store's destroy never fails,
\* and with req.session gone the response's end stores nothing
Logout(cookie) ==
  LET r == Arrive("logout", "destroy", cookie) IN
  /\ sessions' = Destroy(r.sid)
  /\ destroyed' = Destroyed(r.sid, "logout")
  /\ resp' = Reply(r, 200, "")
  /\ UNCHANGED <<accounts, users, contacts, nextSid, reqs, now>>

\* ------------------------------------------------------------- /contact
\* from the request's arrival to the answer of db.collection('contacts').add
\* (the handler shares nothing with the requests that run meanwhile)
Contact(b, cookie, name, email, message) ==
  LET r == Arrive("contact", "add", cookie) IN
  /\ CanGenerate(b, cookie)
  /\ IF Missing(name) \/ Missing(email) \/ Missing(message)
     THEN /\ End(r, r.session, Reply(r, 400, "All fields required"))
          /\ UNCHANGED <<contacts, now>>
     ELSE /\ now < b.time
          /\ \E ok \in BOOLEAN :
               IF ok
               THEN /\ contacts' = Append(contacts,
                         [name |-> name, email |-> email, message |-> message,
                          receivedAt |-> ServerTimestamp])
                    /\ now' = ServerTimestamp
                    /\ End(r, r.session, Reply(r, 200, ""))
               ELSE /\ End(r, r.session, Reply(r, 500, "Message submission failed"))
                    /\ UNCHANGED <<contacts, now>>
  /\ UNCHANGED <<accounts, users, reqs, destroyed>>

\* ---------------------------------------------------------- environment
\* an administrator changes a profile's admin flag in the Firestore console
SetAdmin(uid, isAdmin) ==
  /\ users[uid].exists /\ users[uid].isAdmin # isAdmin
  /\ users' = [users EXCEPT ![uid].isAdmin = isAdmin]
  /\ resp' = NoResp
  /\ UNCHANGED <<accounts, contacts, sessions, nextSid, reqs, now, destroyed>>

\* a profile document is deleted in the Firestore console
DeleteDoc(uid) ==
  /\ users[uid].exists
  /\ users' = [users EXCEPT ![uid] = NoDoc]
  /\ resp' = NoResp
  /\ UNCHANGED <<accounts, contacts, sessions, nextSid, reqs, now, destroyed>>

\* ------------------------------------------------------- specifications
\* the account lifecycle's handlers, run with bounds b
Server(b) ==
  \/ \E c \in Cookies, u \in b.usernames, p \in b.passwords : Register(b, c, u, p)
  \/ \E r \in reqs : RegisterSet(b, r)
  \/ \E c \in Cookies, u \in b.usernames, p \in b.passwords : Login(b, c, u, p)
  \/ \E r \in reqs : LoginUpdateUser(r)
  \/ \E r \in reqs : LoginGet(r)
  \/ \E r \in reqs : LoginUpdate(b, r)
  \/ \E c \in Cookies : WhoAmI(b, c)
  \/ \E r \in reqs : WhoAmIGet(r)
  \/ \E c \in Cookies : Logout(c)

Next ==
  \/ Server(Core)
  \/ \E c \in Cookies, n \in ContactFields, e \in ContactFields, m \in ContactFields :
       Contact(Core, c, n, e, m)

\* the server alone
Spec == Init /\ [][Next]_vars

NextEnv ==
  \/ Server(OneUser)
  \/ \E uid \in Uids, isAdmin \in BOOLEAN : SetAdmin(uid, isAdmin)
  \/ \E uid \in Uids : DeleteDoc(uid)

\* the server, with profile documents changed and deleted out-of-band
SpecEnv == Init /\ [][NextEnv]_vars

NextHeal ==
  \/ Server(TwoUsers)
  \/ \E uid \in Uids : DeleteDoc(uid)

\* two accounts, with profile documents deleted out-of-band
SpecHeal == Init /\ [][NextHeal]_vars

NextCred == Server(TwoPasswords)

\* one client that sends two different passwords
SpecCred == Init /\ [][NextCred]_vars

\* ---------------------------------------------------------------- claims
\* the Session Record a stored session amounts to: <<account id, admin flag>>,
\* <<NoUid, FALSE>> when it names no account
SessionRecord(session) ==
  IF session.present /\ session.uid # NoUid
  THEN <<session.uid, session.isAdmin>> ELSE <<NoUid, FALSE>>

SessionRecordsUnchanged ==
  \A s \in Sids : SessionRecord(sessions'[s]) = SessionRecord(sessions[s])

\* the store's id of request r's session once its response has ended
TokenOf(r) == IF r.sid = NoCookie THEN nextSid ELSE r.sid

\* request r's handler ends in this step
Ends(r) == r \in reqs /\ r \notin reqs'

\* C1: a WhoAmI sent with a token after a Logout on that token has
\* completed answers loggedIn: false, whatever was in flight at the Logout.
C1_LogoutIsFinal ==
  (resp.op = "whoami" /\ "logout" \in resp.after) => ~resp.loggedIn

\* C2: a WhoAmI that reads the profile of its session's account answers
\* loggedIn: true with the username and isAdmin the Profile Record holds at
\* that time, not the isAdmin the session cached at login.
C2_WhoAmIReadsProfile ==
  [][\A r \in reqs :
       (r.op = "whoami" /\ Ends(r) /\ resp'.status = 200
          /\ users[r.session.uid].exists)
       => /\ resp'.loggedIn
          /\ resp'.username = users[r.session.uid].username
          /\ resp'.isAdmin = users[r.session.uid].isAdmin]_vars

\* a WhoAmI answered with the profile's admin flag set while the session
\* still caches the flag as it was at login
C2_Witness ==
  /\ resp.op = "whoami" /\ resp.loggedIn /\ resp.isAdmin
  /\ \E s \in Sids :
       /\ sessions[s].present /\ sessions[s].uid # NoUid
       /\ ~sessions[s].isAdmin
       /\ users[sessions[s].uid].username = resp.username

\* C3: WhoAmI never answers loggedIn: true for a deleted profile, and a
\* WhoAmI sent with a token after a WhoAmI destroyed that token's session
\* (its profile was gone) answers loggedIn: false.
C3_SelfHealedStaysOut ==
  /\ (resp.op = "whoami" /\ resp.loggedIn)
       => \E uid \in Uids : users[uid].exists /\ users[uid].username = resp.username
  /\ (resp.op = "whoami" /\ "whoami" \in resp.after) => ~resp.loggedIn

C6_FailedLoginNoSession ==
  [][(resp'.op = "login" /\ resp'.status \notin {200, 400})
       => /\ resp'.status = 401
          /\ resp'.error = "Invalid credentials"
          /\ SessionRecordsUnchanged
          /\ users' = users]_vars

\* a Login has just failed while a logged-in session is live
C6_Witness ==
  /\ resp.op = "login" /\ resp.status = 401
  /\ resp.error = "Invalid credentials"
  /\ \E s \in Sids : SessionRecord(sessions[s]) # <<NoUid, FALSE>>

\* C7: with no Register in flight, every account has a Profile Record
\* under its uid and every Profile Record belongs to one account.
C7_OneProfilePerAccount ==
  (\A r \in reqs : r.op # "register") =>
    /\ \A e \in Registered : users[accounts[e].uid].exists
    /\ \A uid \in Uids : users[uid].exists =>
         Cardinality({e \in Registered : accounts[e].uid = uid}) = 1

C9_ProfileFrame ==
  [][\A uid \in Uids :
       /\ users[uid].exists =>
            /\ users'[uid].exists
            /\ users'[uid].username = users[uid].username
            /\ users'[uid].isAdmin = users[uid].isAdmin
            /\ users'[uid].createdAt = users[uid].createdAt
       /\ users'[uid] # users[uid] =>
            IF users[uid].exists
            THEN resp'.op = "login" /\ resp'.status = 200
            ELSE /\ resp'.op = "register" /\ resp'.status = 200
                 /\ ~users'[uid].isAdmin /\ users'[uid].lastLogin = Null]_vars

\* a Login has just stamped lastLogin on a profile
C9_Witness ==
  /\ resp.op = "login" /\ resp.status = 200
  /\ \E uid \in Uids : users[uid].exists /\ users[uid].lastLogin = now

====
